---- MODULE Spec2Model ----
(***************************************************************************)
(* Model of src/data/import.py: the script that writes animals.sql and     *)
(* plants.sql.  A file is a sequence of tokens (the CREATE statement, an   *)
(* INSERT header, a row tuple, a comma, a semicolon).  The script writes   *)
(* 200000 rows per file, so a file is kept as its last TailLen tokens plus *)
(* counts of the tokens written so far; every token of the file is the     *)
(* last token of the window at the step that writes it.                    *)
(*                                                                         *)
(* Python 3 evaluates row_cnt / 20, row_cnt / 50 and row_cnt / 1000 as     *)
(* true divisions; 200000 is a multiple of 20, 50 and 1000, so the         *)
(* quotients are the whole numbers 10000.0, 4000.0 and 200.0 and i % q has *)
(* the numeric value of the integer remainder.  Values are modelled by     *)
(* their numeric value.                                                    *)
(***************************************************************************)
EXTENDS Integers, Sequences, FiniteSets, TLC

VARIABLES pc, i, category, elevation, animals, plants, used

vars == <<pc, i, category, elevation, animals, plants, used>>

\* Number of trailing tokens of a file the model keeps.
TailLen == 12

row_cnt == 200000

insert_batch_cnt == row_cnt \div 20

----------------------------------------------------------------------------
\* Tokens of an output file.

CreateTable(t) == [kind |-> "create", table |-> t]

InsertInto(t) == [kind |-> "insert", table |-> t]

Semi == [kind |-> ";"]

Comma == [kind |-> ","]

Row(id, name, cat, elev) ==
    [kind |-> "row", id |-> id, name |-> name, category |-> cat, elevation |-> elev]

custom_plants ==
    << InsertInto("plants"),
       Row(-1, <<"sunflower">>, 3, 1), Comma,
       Row(-2, <<"carnation">>, 0, 1), Comma,
       Row(-3, <<"wildflower">>, 4, 3), Semi >>

custom_animals ==
    << InsertInto("animals"),
       Row(-1, <<"goat">>, 2, 4), Comma,
       Row(-2, <<"cow">>, 1, 3), Comma,
       Row(-3, <<"chicken">>, 0, 1), Semi >>

----------------------------------------------------------------------------
\* Files.

Count(toks, k) == Cardinality({p \in 1..Len(toks) : toks[p].kind = k})

LastN(s, n) == IF Len(s) <= n THEN s ELSE SubSeq(s, Len(s) - n + 1, Len(s))

\* A path with no file behind it.
Absent ==
    [exists |-> FALSE, open |-> FALSE, tail |-> <<>>, len |-> 0,
     nrows |-> 0, nhdr |-> 0, nsemi |-> 0]

\* A file left by an earlier run of some other generator.
Stale(t) ==
    [exists |-> TRUE, open |-> FALSE,
     tail |-> <<InsertInto(t), Row(0, <<"old">>, 7, 7), Semi>>, len |-> 3,
     nrows |-> 1, nhdr |-> 1, nsemi |-> 1]

\* Variant of Open: the file is opened for appending and keeps its content.
OpenAppend(f) == [f EXCEPT !.exists = TRUE, !.open = TRUE]

\* open(path, "w"): creates the file or truncates the one that is there.
Open(f) ==
    [exists |-> TRUE, open |-> TRUE, tail |-> <<>>, len |-> 0,
     nrows |-> 0, nhdr |-> 0, nsemi |-> 0]

\* f.write(s), s given as its tokens.
Write(f, toks) ==
    [f EXCEPT !.tail = LastN(@ \o toks, TailLen),
              !.len = @ + Len(toks),
              !.nrows = @ + Count(toks, "row"),
              !.nhdr = @ + Count(toks, "insert"),
              !.nsemi = @ + Count(toks, ";")]

\* Leaving the with block.
Close(f) == [f EXCEPT !.open = FALSE]

----------------------------------------------------------------------------
\* Module-level names of the script.  by and at record the pass and the
\* iteration whose assignment bound the value.

Unbound == [bound |-> FALSE, val |-> 0, by |-> "none", at |-> 0]

Bind(v, pass, n) == [bound |-> TRUE, val |-> v, by |-> pass, at |-> n]

Init ==
    /\ pc = "start"
    /\ i = 0
    /\ category = Unbound
    /\ elevation = Unbound
    /\ animals \in {Absent, Stale("animals")}
    /\ plants \in {Absent, Stale("plants")}
    /\ used = [file |-> "none", category |-> Unbound, elevation |-> Unbound]

----------------------------------------------------------------------------
\* The loop body, in pieces.

\* Variant of Separator: the batch test lacks its i > 0 conjunct.
SeparatorNoFirstGuard(t, n) ==
    IF n % insert_batch_cnt = 0 THEN <<Semi, InsertInto(t)>>
    ELSE IF n > 0 THEN <<Comma>>
    ELSE <<>>

\* Variant of Separator: the batch branch opens the new statement without
\* closing the previous one.
SeparatorNoSemi(t, n) ==
    IF n > 0 /\ n % insert_batch_cnt = 0 THEN <<InsertInto(t)>>
    ELSE IF n > 0 THEN <<Comma>>
    ELSE <<>>

\* Variant of Separator: the branches are tested in the other order, so the
\* comma branch takes every i > 0.
SeparatorCommaFirst(t, n) ==
    IF n > 0 THEN <<Comma>>
    ELSE IF n > 0 /\ n % insert_batch_cnt = 0 THEN <<Semi, InsertInto(t)>>
    ELSE <<>>

\* What the loop writes before the row of iteration n (the if / elif).
Separator(t, n) ==
    IF n > 0 /\ n % insert_batch_cnt = 0 THEN <<Semi, InsertInto(t)>>
    ELSE IF n > 0 THEN <<Comma>>
    ELSE <<>>

\* Variant of CategoryOf: the divisor has lost a digit.
CategoryOfDiv5(n) == n % (row_cnt \div 5)

CategoryOf(n) == n % (row_cnt \div 50)

\* Variant of ElevationOf: the divisor has lost a digit.
ElevationOfDiv100(n) == n % (row_cnt \div 100)

ElevationOf(n) == n % (row_cnt \div 1000)

\* Variant of GenRow: the id is one ahead of the loop index.
GenRowIdAhead(n, cat, elev) == Row(n + 1, <<"name", n>>, cat, elev)

\* f"  ({i},'name{i}',{category},{elevation})"
GenRow(n, cat, elev) == Row(n, <<"name", n>>, cat, elev)

\* The binding the formatted row of the animals loop reads: the assignment
\* comes before the write.
AnimalsReads(old, new) == new

\* Variant of PlantsReads: the assignment comes before the write, as in the
\* animals loop.
PlantsReadsNew(old, new) == new

\* The binding the formatted row of the plants loop reads: the write comes
\* before the assignment.
PlantsReads(old, new) == old

----------------------------------------------------------------------------
\* The script, one step per with-block entry, loop iteration and block exit.

AnimalsOpen ==
    /\ pc = "start"
    /\ animals' = Write(Write(Write(Open(animals),
                    <<CreateTable("animals"), Semi>>), custom_animals),
                    <<InsertInto("animals")>>)
    /\ i' = 0
    /\ pc' = "animals_loop"
    /\ UNCHANGED <<category, elevation, plants, used>>

AnimalsIter ==
    /\ pc = "animals_loop"
    /\ i < row_cnt
    /\ LET c == Bind(CategoryOf(i), "animals", i)
           e == Bind(ElevationOf(i), "animals", i)
           rc == AnimalsReads(category, c)
           re == AnimalsReads(elevation, e)
       IN /\ category' = c
          /\ elevation' = e
          /\ used' = [file |-> "animals", category |-> rc, elevation |-> re]
          /\ animals' = Write(Write(animals, Separator("animals", i)),
                              <<GenRow(i, rc.val, re.val)>>)
    /\ i' = i + 1
    /\ UNCHANGED <<pc, plants>>

AnimalsClose ==
    /\ pc = "animals_loop"
    /\ i = row_cnt
    /\ animals' = Close(Write(animals, <<Semi>>))
    /\ pc' = "plants_start"
    /\ UNCHANGED <<i, category, elevation, plants, used>>

PlantsOpen ==
    /\ pc = "plants_start"
    /\ plants' = Write(Write(Write(Open(plants),
                    <<CreateTable("plants"), Semi>>), custom_plants),
                    <<InsertInto("plants")>>)
    /\ i' = 0
    /\ pc' = "plants_loop"
    /\ UNCHANGED <<category, elevation, animals, used>>

PlantsIter ==
    /\ pc = "plants_loop"
    /\ i < row_cnt
    /\ LET c == Bind(CategoryOf(i), "plants", i)
           e == Bind(ElevationOf(i), "plants", i)
           rc == PlantsReads(category, c)
           re == PlantsReads(elevation, e)
       IN IF rc.bound /\ re.bound
          THEN /\ category' = c
               /\ elevation' = e
               /\ used' = [file |-> "plants", category |-> rc, elevation |-> re]
               /\ plants' = Write(Write(plants, Separator("plants", i)),
                                  <<GenRow(i, rc.val, re.val)>>)
               /\ i' = i + 1
               /\ pc' = pc
          ELSE \* NameError while formatting the row: the separator is written,
               \* the with block closes the file and the script stops.
               /\ plants' = Close(Write(plants, Separator("plants", i)))
               /\ pc' = "NameError"
               /\ UNCHANGED <<i, category, elevation, used>>
    /\ UNCHANGED animals

PlantsClose ==
    /\ pc = "plants_loop"
    /\ i = row_cnt
    /\ plants' = Close(Write(plants, <<Semi>>))
    /\ pc' = "done"
    /\ UNCHANGED <<i, category, elevation, animals, used>>

Next ==
    \/ AnimalsOpen
    \/ AnimalsIter
    \/ AnimalsClose
    \/ PlantsOpen
    \/ PlantsIter
    \/ PlantsClose

Spec == Init /\ [][Next]_vars

TypeOK ==
    /\ pc \in {"start", "animals_loop", "plants_start", "plants_loop", "done", "NameError"}
    /\ i \in 0..row_cnt
    /\ Len(animals.tail) <= TailLen
    /\ Len(plants.tail) <= TailLen

----------------------------------------------------------------------------
\* Vocabulary of the properties.

Tables == {"animals", "plants"}

File(t) == IF t = "animals" THEN animals ELSE plants

\* The run has opened (and so truncated) the file of table t.
Started(t) ==
    IF t = "animals" THEN pc # "start"
    ELSE pc \in {"plants_loop", "done", "NameError"}

\* The run has written the file of table t to its end and closed it.
Completed(t) ==
    IF t = "animals" THEN pc \in {"plants_start", "plants_loop", "done"}
    ELSE pc = "done"

RowPos(f) == {p \in 1..Len(f.tail) : f.tail[p].kind = "row"}

\* Number of rows of the window after position p.
RECURSIVE RowsAfter(_, _)
RowsAfter(f, p) ==
    IF p >= Len(f.tail) THEN 0
    ELSE (IF f.tail[p + 1].kind = "row" THEN 1 ELSE 0) + RowsAfter(f, p + 1)

\* The row at position p of the window is the RowOrdinal-th row of the file.
RowOrdinal(f, p) == f.nrows - RowsAfter(f, p)

\* The row at position p is one of the first three rows of the file, the
\* rows of the fixed block.  (RowsAfter is at most Len(f.tail), so a file
\* with more than Len(f.tail) + 3 rows has none of them in its window.)
IsSeedRow(f, p) == f.nrows <= Len(f.tail) + 3 /\ RowOrdinal(f, p) <= 3

\* Positions of the window that hold rows written by the loop.
GenPos(f) == {p \in RowPos(f) : ~IsSeedRow(f, p)}

LastTok(f) == f.tail[Len(f.tail)]

\* The file ends with a row the loop has written.  Every generated row is
\* the last token of its file in the state its iteration leaves.
EndsWithGenRow(f) == Len(f.tail) > 0 /\ LastTok(f).kind = "row" /\ f.nrows > 3

CeilDiv(a, b) == (a + b - 1) \div b

----------------------------------------------------------------------------
\* C1: every generated row of either file has category = id mod
\* (row_count/50) and elevation = id mod (row_count/1000); rows 0 and 4000
\* carry category 0 and elevation 0.
C1_RowValuesFollowId ==
    \A t \in Tables : Started(t) =>
        \A p \in GenPos(File(t)) :
            LET r == File(t).tail[p]
            IN /\ r.category = r.id % (row_cnt \div 50)
               /\ r.elevation = r.id % (row_cnt \div 1000)
               /\ r.id \in {0, 4000} => r.category = 0 /\ r.elevation = 0

\* C2: nothing written to plants.sql depends on a variable left behind by
\* the animals pass: every category and elevation the plants pass writes was
\* assigned by the plants pass itself.
C2_PlantsIndependent ==
    used.file = "plants" =>
        /\ used.category.by = "plants"
        /\ used.elevation.by = "plants"

\* C3: in each file the k-th generated row has id k-1, so the generated ids
\* are 0, 1, 2, ... in ascending order without gap or repetition, and a
\* completed file has exactly row_count of them.
C3_IdsContiguous ==
    \A t \in Tables : Started(t) =>
        /\ EndsWithGenRow(File(t)) =>
              LastTok(File(t)).id = (File(t).nrows - 3) - 1
        /\ \A p, q \in GenPos(File(t)) :
              q = p + 2 => File(t).tail[q].id = File(t).tail[p].id + 1
        /\ Completed(t) => File(t).nrows - 3 = row_cnt

C3_Witness ==
    /\ pc = "animals_loop"
    /\ i = row_cnt
    /\ EndsWithGenRow(animals)
    /\ LastTok(animals).id = row_cnt - 1
    /\ animals.nrows - 3 = row_cnt

\* C4: a completed file holds exactly row_count + 3 rows; the three seed
\* rows have distinct negative ids, every generated row a non-negative id,
\* and no two rows share an id.
C4_RowCountAndUniqueIds ==
    \A t \in Tables : Started(t) =>
        LET f == File(t)
        IN /\ Completed(t) => f.nrows = row_cnt + 3
           /\ \A p \in RowPos(f) :
                 IF IsSeedRow(f, p) THEN f.tail[p].id < 0
                 ELSE f.tail[p].id >= 0
           /\ \A p, q \in RowPos(f) : p # q => f.tail[p].id # f.tail[q].id
           /\ \A p, q \in GenPos(f) : p < q => f.tail[p].id < f.tail[q].id

C4_Witness ==
    /\ pc = "done"
    /\ animals.nrows = row_cnt + 3
    /\ plants.nrows = row_cnt + 3
    /\ ~animals.open /\ ~plants.open

\* C5: the generated block of a completed file consists of
\* ceil(row_count / (row_count/20)) = 20 INSERT statements; while the block
\* is being written, k >= 1 generated rows lie in ceil(k / (row_count/20))
\* statements.
C5_TwentyStatements ==
    \A t \in Tables :
        /\ (Started(t) /\ File(t).nrows > 3) =>
              File(t).nhdr - 1 = CeilDiv(File(t).nrows - 3, row_cnt \div 20)
        /\ Completed(t) =>
              /\ File(t).nhdr - 1 = CeilDiv(row_cnt, row_cnt \div 20)
              /\ File(t).nhdr - 1 = 20

C5_Witness ==
    /\ pc = "plants_start"
    /\ ~animals.open
    /\ animals.nhdr = 21

\* C6: every INSERT statement is terminated by exactly one semicolon and
\* holds at least one row: a header is followed by a row, a header follows
\* a semicolon, a semicolon follows a row (or the CREATE statement) and is
\* followed by a header, and a completed file ends with a semicolon.
C6_StatementsTerminated ==
    \A t \in Tables : Started(t) =>
        LET f == File(t)
        IN /\ \A p \in 1..(Len(f.tail) - 1) :
                 LET a == f.tail[p]
                     b == f.tail[p + 1]
                 IN /\ a.kind = "insert" => b.kind = "row"
                    /\ b.kind = "insert" => a.kind = ";"
                    /\ b.kind = ";" => a.kind \in {"row", "create"}
                    /\ a.kind = ";" => b.kind = "insert"
           /\ f.nsemi \in {f.nhdr, f.nhdr + 1}
           /\ Completed(t) => LastTok(f).kind = ";" /\ f.nsemi = f.nhdr + 1

C6_Witness ==
    /\ pc = "plants_start"
    /\ LastTok(animals) = Semi
    /\ animals.tail[Len(animals.tail) - 1].kind = "row"
    /\ animals.nsemi = 22

\* C7: row 0 directly follows the opening header; a row whose index is a
\* nonzero multiple of row_count/20 follows the previous row, a semicolon
\* and a fresh header; every other row follows the previous row and one
\* comma.  Row 9999 is followed by ';' and row 10000 opens a new statement.
C7_WhatPrecedesARow ==
    \A t \in Tables : (Started(t) /\ EndsWithGenRow(File(t))) =>
        LET f == File(t)
            L == Len(f.tail)
            n == f.tail[L].id
        IN /\ n = 0 =>
                 /\ f.tail[L - 1] = InsertInto(t)
                 /\ f.tail[L - 2] = Semi
                 /\ f.nhdr = 2
           /\ (n > 0 /\ n % (row_cnt \div 20) = 0) =>
                 /\ f.tail[L - 1] = InsertInto(t)
                 /\ f.tail[L - 2] = Semi
                 /\ f.tail[L - 3].kind = "row" /\ f.tail[L - 3].id = n - 1
           /\ (n > 0 /\ n % (row_cnt \div 20) # 0) =>
                 /\ f.tail[L - 1] = Comma
                 /\ f.tail[L - 2].kind = "row" /\ f.tail[L - 2].id = n - 1
           /\ n = 9999 => f.nhdr = 2
           /\ n = 10000 =>
                 /\ f.tail[L - 3].id = 9999
                 /\ f.tail[L - 2] = Semi
                 /\ f.tail[L - 1] = InsertInto(t)
                 /\ f.nhdr = 3

C7_Witness ==
    /\ pc = "animals_loop"
    /\ EndsWithGenRow(animals)
    /\ LastTok(animals).id = 10000
    /\ animals.tail[Len(animals.tail) - 1] = InsertInto("animals")
    /\ animals.tail[Len(animals.tail) - 2] = Semi
    /\ animals.tail[Len(animals.tail) - 3].id = 9999

\* C8: for 1 <= i < row_count the plants row with id i carries category
\* (i-1) mod (row_count/50) and elevation (i-1) mod (row_count/1000), which
\* are the values the animals file gives to its row i-1.
C8_PlantsLagByOne ==
    /\ Started("plants") =>
          \A p \in GenPos(plants) :
              LET r == plants.tail[p]
              IN r.id >= 1 =>
                    /\ r.category = (r.id - 1) % (row_cnt \div 50)
                    /\ r.elevation = (r.id - 1) % (row_cnt \div 1000)
    /\ Started("animals") =>
          \A p \in GenPos(animals) :
              LET r == animals.tail[p]
              IN /\ r.category = r.id % (row_cnt \div 50)
                 /\ r.elevation = r.id % (row_cnt \div 1000)

C8_Witness ==
    /\ pc = "plants_loop"
    /\ EndsWithGenRow(plants)
    /\ LastTok(plants).id = 4000
    /\ LastTok(plants).category = 3999
    /\ LastTok(plants).elevation = 199

\* C9: the plants row with id 0 carries the category and elevation of the
\* last animals iteration, (row_count-1) mod (row_count/50) = 3999 and
\* (row_count-1) mod (row_count/1000) = 199, and the values assigned in the
\* last plants iteration are written to no file.
C9_PlantsRowZeroAndLastValues ==
    /\ Started("plants") =>
          \A p \in GenPos(plants) :
              LET r == plants.tail[p]
              IN r.id = 0 =>
                    /\ r.category = (row_cnt - 1) % (row_cnt \div 50)
                    /\ r.elevation = (row_cnt - 1) % (row_cnt \div 1000)
                    /\ r.category = 3999 /\ r.elevation = 199
    /\ ~(used.category.by = "plants" /\ used.category.at = row_cnt - 1)
    /\ ~(used.elevation.by = "plants" /\ used.elevation.at = row_cnt - 1)
    /\ pc = "done" =>
          /\ category.by = "plants" /\ category.at = row_cnt - 1
          /\ elevation.by = "plants" /\ elevation.at = row_cnt - 1

C9_Witness ==
    /\ pc = "plants_loop"
    /\ i = 1
    /\ LastTok(plants).kind = "row"
    /\ LastTok(plants).id = 0
    /\ used.category.by = "animals" /\ used.category.at = row_cnt - 1

\* C10: every generated row of either file has its category in
\* 0 .. row_count/50 - 1, its elevation in 0 .. row_count/1000 - 1, and
\* elevation = category mod (row_count/1000).
C10_ValuesInRange ==
    \A t \in Tables : Started(t) =>
        \A p \in GenPos(File(t)) :
            LET r == File(t).tail[p]
            IN /\ r.category \in 0..(row_cnt \div 50 - 1)
               /\ r.elevation \in 0..(row_cnt \div 1000 - 1)
               /\ r.elevation = r.category % (row_cnt \div 1000)

C10_Witness ==
    /\ pc = "plants_loop"
    /\ EndsWithGenRow(plants)
    /\ LastTok(plants).id = 200
    /\ LastTok(plants).category = 199
    /\ LastTok(plants).elevation = 199

====
